---- MODULE Spec2Model ----
(***************************************************************************)
(* Model of packages/docmanager-extension/src/index.ts: the widget opener  *)
(* of the document-manager plugin (opener.open, the clone, close and      *)
(* close-all commands), the dirty-state tracking of handleContext, and the *)
(* save, restore-checkpoint, delete-file and open commands of addCommands  *)
(* (specification SpecCmd).                                                *)
(*                                                                         *)
(* The document manager, the contexts, their models and the application    *)
(* shell are collaborators: their events (a context's ready promise        *)
(* resolving, its model emitting stateChanged, its disposed signal) are    *)
(* the environment's moves and may come in any order.  The handlers that   *)
(* index.ts installs are translated statement by statement.                *)
(***************************************************************************)
EXTENDS Naturals, Sequences, FiniteSets

\* ---------------------------------------------------------------- bounds
NumContexts == 2
MaxWidgets == 2
MaxTokens == 2
MaxCommands == 2

Contexts == 1..NumContexts

\* `null` of `let disposable: IDisposable | null = null`, and the absence of
\* a current widget / of a widget id.
Null == 0
NoWidget == 0
NoId == 0
NoContext == 0

\* A widget in the shell that does not belong to the document manager:
\* docManager.contextForWidget finds no context for it.
ForeignWidget == MaxWidgets + 1

\* `undefined` as the value of a command argument that is absent.
Undefined == "<undefined>"

\* Names carried by IChangedArgs of a document model's stateChanged signal.
PropNames == {"dirty", "readOnly"}

VARIABLES
  widgets,          \* widgets created by the document manager: <<[ctx, id, attached, dataType]>>
  privateId,        \* Private.id
  currentWidget,    \* app.shell.currentWidget (NoWidget when none)
  contexts,         \* the WeakSet `contexts` of activate()
  handleCalls,      \* per context: number of handleContext invocations
  ready,            \* per context: the context.ready.then callback has run
  connected,        \* per context: onStateChanged is connected to model.stateChanged
  disposed,         \* per context: context.disposed has been emitted
  modelDirty,       \* per context: context.model.dirty
  disposable,       \* per context: the closure variable `disposable` (token id or Null)
  tokens,           \* host: every token app.setDirty() returned: <<[owner, disposeCalls]>>
  lastObserved,     \* history: last dirty value the tracker observed for the context
  delivered,        \* history: onStateChanged has been invoked with a 'dirty' change
  consecTrue,       \* history: consecutive dirty=true deliveries since the last dirty=false (capped at 2)
  disposedBeforeReady, \* history: the context was disposed before its ready callback ran
  event,            \* history: the last event that happened
  modelReadOnly,    \* per context: context.model.readOnly
  foreignAttached,  \* app.shell holds an attached widget that is not a document widget
  tasks             \* command executions, in order: << <<cmd, ctx, path, factory, kernel, pc, result, log>> >>

vars == <<widgets, privateId, currentWidget, contexts, handleCalls, ready,
          connected, disposed, modelDirty, disposable, tokens,
          lastObserved, delivered, consecTrue, disposedBeforeReady, event,
          modelReadOnly, foreignAttached, tasks>>

widgetVars == <<widgets, privateId, currentWidget>>
trackVars == <<contexts, handleCalls>>
modelVars == <<modelDirty>>
histVars == <<lastObserved, delivered, consecTrue, disposedBeforeReady>>
cmdVars == <<modelReadOnly, tasks>>
shellVars == <<foreignAttached>>

Event(op, c, name, val) == [op |-> op, ctx |-> c, name |-> name, val |-> val]

\* ------------------------------------------------------- host application
\* app.setDirty(): a fresh token, recorded with the context it was acquired for.
SetDirty(toks, c) == Append(toks, [owner |-> c, disposeCalls |-> 0])

\* token.dispose(): one more release call on token t.
TokenDispose(toks, t) == [toks EXCEPT ![t].disposeCalls = @ + 1]

\* ------------------------------------------------------- handleContext
\* handleContext(app, context): `let disposable = null`, the ready.then and
\* disposed.connect registrations.  Nothing is connected to stateChanged yet.
HandleContext_ConnectEarly(c) ==
  /\ handleCalls' = [handleCalls EXCEPT ![c] = @ + 1]
  /\ disposable' = [disposable EXCEPT ![c] = Null]
  /\ connected' = [connected EXCEPT ![c] = TRUE]
  /\ UNCHANGED tokens

HandleContext(c) ==
  /\ handleCalls' = [handleCalls EXCEPT ![c] = @ + 1]
  /\ disposable' = [disposable EXCEPT ![c] = Null]
  /\ UNCHANGED <<connected, tokens>>

\* onStateChanged(sender, args)
OnStateChanged_NoGuard(c, name, newValue) ==
  IF name = "dirty"
  THEN IF newValue = TRUE
       THEN /\ tokens' = SetDirty(tokens, c)
            /\ disposable' = [disposable EXCEPT ![c] = Len(tokens) + 1]
       ELSE IF disposable[c] # Null
            THEN /\ tokens' = TokenDispose(tokens, disposable[c])
                 /\ disposable' = [disposable EXCEPT ![c] = Null]
            ELSE UNCHANGED <<tokens, disposable>>
  ELSE UNCHANGED <<tokens, disposable>>

OnStateChanged_NoNameFilter(c, name, newValue) ==
  IF newValue = TRUE
  THEN IF disposable[c] = Null
       THEN /\ tokens' = SetDirty(tokens, c)
            /\ disposable' = [disposable EXCEPT ![c] = Len(tokens) + 1]
       ELSE UNCHANGED <<tokens, disposable>>
  ELSE IF disposable[c] # Null
       THEN /\ tokens' = TokenDispose(tokens, disposable[c])
            /\ disposable' = [disposable EXCEPT ![c] = Null]
       ELSE UNCHANGED <<tokens, disposable>>

OnStateChanged(c, name, newValue) ==
  IF name = "dirty"
  THEN IF newValue = TRUE
       THEN IF disposable[c] = Null
            THEN /\ tokens' = SetDirty(tokens, c)
                 /\ disposable' = [disposable EXCEPT ![c] = Len(tokens) + 1]
            ELSE UNCHANGED <<tokens, disposable>>
       ELSE IF disposable[c] # Null
            THEN /\ tokens' = TokenDispose(tokens, disposable[c])
                 /\ disposable' = [disposable EXCEPT ![c] = Null]
            ELSE UNCHANGED <<tokens, disposable>>
  ELSE UNCHANGED <<tokens, disposable>>

\* The callback of context.ready.then
OnReady_NoReconcile(c) ==
  /\ connected' = [connected EXCEPT ![c] = TRUE]
  /\ UNCHANGED <<tokens, disposable>>

OnReady(c) ==
  /\ connected' = [connected EXCEPT ![c] = TRUE]
  /\ IF modelDirty[c]
     THEN /\ tokens' = SetDirty(tokens, c)
          /\ disposable' = [disposable EXCEPT ![c] = Len(tokens) + 1]
     ELSE UNCHANGED <<tokens, disposable>>

\* The slot connected to context.disposed
OnDisposed_NoRelease(c) ==
  UNCHANGED <<tokens, disposable>>

OnDisposed(c) ==
  /\ IF disposable[c] # Null
     THEN tokens' = TokenDispose(tokens, disposable[c])
     ELSE UNCHANGED tokens
  /\ UNCHANGED disposable

\* ------------------------------------------------------- opener.open
\* opener.open(widget), applied to the widget table ws (which already holds
\* the widget when the document manager has just created it).
Open_NoHasCheck(ws, w) ==
  LET needId == ws[w].id = NoId
      pid == IF needId THEN privateId + 1 ELSE privateId
      context == ws[w].ctx
  IN /\ privateId' = pid
     /\ widgets' = [ws EXCEPT ![w] =
                      [ctx |-> context,
                       id |-> IF needId THEN pid ELSE ws[w].id,
                       attached |-> TRUE,
                       dataType |-> IF ws[w].dataType = ""
                                    THEN "document-title" ELSE ws[w].dataType]]
     /\ currentWidget' = w
     /\ HandleContext(context)
     /\ contexts' = contexts \cup {context}

Open(ws, w) ==
  LET needId == ws[w].id = NoId
      pid == IF needId THEN privateId + 1 ELSE privateId
      context == ws[w].ctx
  IN /\ privateId' = pid
     /\ widgets' = [ws EXCEPT ![w] =
                      [ctx |-> context,
                       id |-> IF needId THEN pid ELSE ws[w].id,
                       attached |-> TRUE,
                       dataType |-> IF ws[w].dataType = ""
                                    THEN "document-title" ELSE ws[w].dataType]]
     /\ currentWidget' = w
     /\ IF context \notin contexts
        THEN /\ HandleContext(context)
             /\ contexts' = contexts \cup {context}
        ELSE UNCHANGED <<contexts, handleCalls, disposable, connected, tokens>>

\* A widget as the document manager hands it to the opener.
NewWidget(c) == [ctx |-> c, id |-> NoId, attached |-> FALSE, dataType |-> ""]

\* ------------------------------------------------------- actions
\* The document manager creates a widget for context c and opens it.
DocManagerOpen(c) ==
  /\ Len(widgets) < MaxWidgets
  /\ Open(Append(widgets, NewWidget(c)), Len(widgets) + 1)
  /\ event' = Event("open", c, "", FALSE)
  /\ UNCHANGED <<ready, disposed, modelVars, histVars, cmdVars,
                 shellVars>>

\* The document manager reveals an existing widget: opener.open on it again.
Reveal(w) ==
  /\ Open(widgets, w)
  /\ event' = Event("reveal", widgets[w].ctx, "", FALSE)
  /\ UNCHANGED <<ready, disposed, modelVars, histVars, cmdVars,
                 shellVars>>

\* CommandIDs.clone execute; hasChild is whether docManager.cloneWidget
\* returns a widget.
Clone(hasChild) ==
  /\ event' = Event("clone", IF currentWidget = NoWidget THEN 0
                             ELSE widgets[currentWidget].ctx, "", hasChild)
  /\ UNCHANGED <<ready, disposed, modelVars, histVars, cmdVars,
                 shellVars>>
  /\ IF currentWidget = NoWidget
     THEN UNCHANGED <<widgetVars, trackVars, disposable, connected, tokens>>
     ELSE IF hasChild
          THEN /\ Len(widgets) < MaxWidgets
               /\ Open(Append(widgets, NewWidget(widgets[currentWidget].ctx)),
                       Len(widgets) + 1)
          ELSE UNCHANGED <<widgetVars, trackVars, disposable, connected, tokens>>

\* The widgets a close request can still take out of the main area.
Attached ==
  {w \in 1..Len(widgets) : widgets[w].attached}
    \cup (IF foreignAttached THEN {ForeignWidget} ELSE {})

\* The widgets in `closed` leave the main area.
Detach(ws, closed) ==
  [w \in 1..Len(ws) |->
     IF w \in closed THEN [ws[w] EXCEPT !.attached = FALSE] ELSE ws[w]]

\* app.shell.currentWidget after a close request. index.ts only calls
\* close() / closeAll(); which widget the shell then reports is the shell's
\* choice: none, the widget it reported before (closed or not), or any
\* widget still attached (ws and foreign are the values after the request).
CurrentAfterClose(ws, foreign, current) ==
  {NoWidget, current}
    \cup {w \in 1..Len(ws) : ws[w].attached}
    \cup (IF foreign THEN {ForeignWidget} ELSE {})

\* CommandIDs.close execute. close() is a request to the widget: `closed`
\* holds the current widget when it honours the request and is empty when
\* the widget intercepts it (or has left the main area already).
Close(closed) ==
  /\ closed \subseteq {currentWidget} \cap Attached
  /\ event' = Event("close", IF currentWidget \in 1..Len(widgets)
                             THEN widgets[currentWidget].ctx ELSE NoContext,
                     "", currentWidget # NoWidget)
  /\ IF currentWidget # NoWidget
     THEN /\ widgets' = Detach(widgets, closed)
          /\ foreignAttached' = (foreignAttached /\ ForeignWidget \notin closed)
          /\ currentWidget' \in CurrentAfterClose(widgets', foreignAttached',
                                                  currentWidget)
     ELSE UNCHANGED <<widgets, currentWidget, foreignAttached>>
  /\ UNCHANGED <<privateId, trackVars, ready, connected, disposed, modelVars,
                 histVars, disposable, tokens, cmdVars>>

\* CommandIDs.closeAllFiles execute. closeAll() sends the request to every
\* widget of the main area: `closed` holds those that honour it.
CloseAll(closed) ==
  /\ closed \subseteq Attached
  /\ event' = Event("closeAll", NoContext, "", TRUE)
  /\ widgets' = Detach(widgets, closed)
  /\ foreignAttached' = (foreignAttached /\ ForeignWidget \notin closed)
  /\ currentWidget' \in CurrentAfterClose(widgets', foreignAttached',
                                          currentWidget)
  /\ UNCHANGED <<privateId, trackVars, ready, connected, disposed, modelVars,
                 histVars, disposable, tokens, cmdVars>>

\* The ready promise of context c resolves and its callback runs.
Ready(c) ==
  /\ c \in contexts
  /\ ~ready[c]
  /\ modelDirty[c] => Len(tokens) < MaxTokens
  /\ ready' = [ready EXCEPT ![c] = TRUE]
  /\ OnReady(c)
  /\ lastObserved' = [lastObserved EXCEPT ![c] = modelDirty[c]]
  /\ event' = Event("ready", c, "", modelDirty[c])
  /\ UNCHANGED <<widgetVars, trackVars, disposed, modelVars, delivered,
                 consecTrue, disposedBeforeReady, cmdVars,
                 shellVars>>

\* The model of context c sets property `name` to newValue and emits
\* stateChanged; the slot runs when it is connected.  Of the model's
\* properties only `dirty` is read by handleContext, so only it is kept.
StateChanged(c, name, newValue) ==
  /\ c \in contexts
  /\ (name = "dirty" /\ newValue) => Len(tokens) < MaxTokens
  /\ modelDirty' = IF name = "dirty"
                   THEN [modelDirty EXCEPT ![c] = newValue] ELSE modelDirty
  /\ IF connected[c]
     THEN /\ OnStateChanged(c, name, newValue)
          /\ IF name = "dirty"
             THEN /\ lastObserved' = [lastObserved EXCEPT ![c] = newValue]
                  /\ delivered' = [delivered EXCEPT ![c] = TRUE]
                  /\ consecTrue' = [consecTrue EXCEPT ![c] =
                        IF newValue THEN (IF @ < 2 THEN @ + 1 ELSE 2) ELSE 0]
             ELSE UNCHANGED <<lastObserved, delivered, consecTrue>>
     ELSE UNCHANGED <<tokens, disposable, lastObserved, delivered, consecTrue>>
  /\ event' = Event("stateChanged", c, name, newValue)
  /\ UNCHANGED <<widgetVars, trackVars, ready, connected, disposed,
                 disposedBeforeReady, cmdVars,
                 shellVars>>

\* Context c emits disposed (once).
ContextDisposed(c) ==
  /\ c \in contexts
  /\ ~disposed[c]
  /\ disposed' = [disposed EXCEPT ![c] = TRUE]
  /\ OnDisposed(c)
  /\ disposedBeforeReady' = [disposedBeforeReady EXCEPT ![c] = ~ready[c]]
  /\ event' = Event("disposed", c, "", FALSE)
  /\ UNCHANGED <<widgetVars, trackVars, ready, connected, modelVars,
                 lastObserved, delivered, consecTrue, cmdVars,
                 shellVars>>

Init ==
  /\ widgets = << >>
  /\ privateId = 0
  /\ currentWidget = NoWidget
  /\ contexts = {}
  /\ handleCalls = [c \in Contexts |-> 0]
  /\ ready = [c \in Contexts |-> FALSE]
  /\ connected = [c \in Contexts |-> FALSE]
  /\ disposed = [c \in Contexts |-> FALSE]
  /\ modelDirty = [c \in Contexts |-> FALSE]
  /\ disposable = [c \in Contexts |-> Null]
  /\ tokens = << >>
  /\ lastObserved = [c \in Contexts |-> FALSE]
  /\ delivered = [c \in Contexts |-> FALSE]
  /\ consecTrue = [c \in Contexts |-> 0]
  /\ disposedBeforeReady = [c \in Contexts |-> FALSE]
  /\ event = Event("init", 0, "", FALSE)
  /\ modelReadOnly = [c \in Contexts |-> FALSE]
  /\ foreignAttached = FALSE
  /\ tasks = << >>

Next ==
  \/ \E c \in Contexts : DocManagerOpen(c)
  \/ \E w \in 1..Len(widgets) : Reveal(w)
  \/ \E hasChild \in BOOLEAN : Clone(hasChild)
  \/ \E closed \in SUBSET Attached : Close(closed)
  \/ \E closed \in SUBSET Attached : CloseAll(closed)
  \/ \E c \in Contexts : Ready(c)
  \/ \E c \in Contexts, name \in PropNames, newValue \in BOOLEAN :
        StateChanged(c, name, newValue)
  \/ \E c \in Contexts : ContextDisposed(c)

Spec == Init /\ [][Next]_vars

\* ------------------------------------------------------- shared notions
TokenIds == 1..Len(tokens)
OwnedBy(c) == {t \in TokenIds : tokens[t].owner = c}
Unreleased(c) == {t \in OwnedBy(c) : tokens[t].disposeCalls = 0}
Held(c) == Unreleased(c) # {}
HeldOnHost == {t \in TokenIds : tokens[t].disposeCalls = 0}

TypeOK ==
  /\ contexts \subseteq Contexts
  /\ Len(widgets) <= MaxWidgets
  /\ Len(tokens) <= MaxTokens
  /\ \A c \in Contexts : disposable[c] \in {Null} \cup TokenIds

\* Number of release (dispose) calls made on the tokens in ts.
RECURSIVE ReleaseCalls(_)
ReleaseCalls(ts) ==
  IF ts = {} THEN 0
  ELSE LET t == CHOOSE x \in ts : TRUE
       IN tokens[t].disposeCalls + ReleaseCalls(ts \ {t})

\* The last event was a 'dirty' notification for c carrying value v.
DirtyNotified(e, c, v) ==
  e.op = "stateChanged" /\ e.ctx = c /\ e.name = "dirty" /\ e.val = v

\* ------------------------------------------------------- claims

\* C1: in every reachable state, a dirty-indicator token is held for a tracked
\* context if and only if its last observed dirty value is true and it has
\* not been disposed.
C1_HeldIffDirtyAndLive ==
  \A c \in contexts : Held(c) <=> (lastObserved[c] /\ ~disposed[c])

\* C2: right after the ready callback of a context whose model.dirty is true
\* at that moment has run, the context holds a token, although no dirty
\* notification was ever delivered to the tracker for it.
C2_RaceReconciliation ==
  \A c \in contexts :
    (event.op = "ready" /\ event.ctx = c /\ modelDirty[c])
      => /\ Held(c)
         /\ disposable[c] \in Unreleased(c)
         /\ ~delivered[c]

C2_Witness ==
  \E c \in contexts :
    /\ event.op = "ready" /\ event.ctx = c /\ modelDirty[c]
    /\ ~disposed[c] /\ Held(c) /\ ~delivered[c]

\* C3: a context disposed before its ready callback ran holds, in every later
\* state, no unreleased token and has no live state-change subscription.
C3_DisposedBeforeReadyIsClean ==
  \A c \in contexts :
    (disposed[c] /\ disposedBeforeReady[c]) => (~Held(c) /\ ~connected[c])

\* C4: the disposal of a context that holds a token makes exactly one release
\* call, on that token; the disposal of a context that holds none makes no
\* release call.
C4_DisposalReleasesOnce ==
  [][\A c \in contexts :
       (~disposed[c] /\ disposed'[c]) =>
          IF Held(c)
          THEN /\ disposable[c] \in Unreleased(c)
               /\ tokens' = [tokens EXCEPT ![disposable[c]].disposeCalls = 1]
          ELSE tokens' = tokens]_vars

C4_Witness ==
  \E c \in contexts :
    /\ event.op = "disposed" /\ event.ctx = c
    /\ disposable[c] # Null
    /\ tokens[disposable[c]].disposeCalls = 1
    /\ ReleaseCalls(OwnedBy(c)) = 1

\* C5: once a context's disposal has been handled, a later state-change
\* notification for it makes no acquire and no release call, and the
\* state-change subscription is no longer connected.
C5_IgnoredAfterDisposal ==
  [][\A c \in contexts :
       /\ (disposed[c] /\ event'.op = "stateChanged" /\ event'.ctx = c)
             => tokens' = tokens
       /\ disposed'[c] => ~connected'[c]]_vars

\* C6: release calls never exceed acquire calls, and no token has dispose
\* called on it more than once (so no release is made while none is held).
C6_MatchedAcquireRelease ==
  /\ ReleaseCalls(TokenIds) <= Len(tokens)
  /\ \A c \in contexts : ReleaseCalls(OwnedBy(c)) <= Cardinality(OwnedBy(c))
  /\ \A t \in TokenIds : tokens[t].disposeCalls <= 1

\* C7: a context never has more than one unreleased token, and a dirty=true
\* notification that follows an observation of dirty=true (by reconciliation
\* or by notification) makes no app.setDirty call.
C7_IdempotentAcquire ==
  [][\A c \in contexts :
       /\ Cardinality(Unreleased(c)') <= 1
       /\ (connected[c] /\ lastObserved[c] /\ DirtyNotified(event', c, TRUE))
             => Len(tokens') = Len(tokens)
       /\ (connected[c] /\ DirtyNotified(event', c, TRUE))
             => Len(tokens') <= Len(tokens) + 1]_vars

C7_Witness ==
  \E c \in contexts :
    /\ DirtyNotified(event, c, TRUE)
    /\ consecTrue[c] = 2
    /\ ~disposed[c]
    /\ Cardinality(OwnedBy(c)) = 1
    /\ Cardinality(Unreleased(c)) = 1

\* C8: the number of tokens held on the host equals the number of
\* non-disposed contexts whose last observed dirty value is true, and every
\* held token belongs to such a context.
C8_Independence ==
  /\ Cardinality(HeldOnHost)
       = Cardinality({c \in contexts : ~disposed[c] /\ lastObserved[c]})
  /\ \A t \in HeldOnHost :
       ~disposed[tokens[t].owner] /\ lastObserved[tokens[t].owner]

\* C9: as long as the ready callback of a tracked context has not run, no
\* token was ever acquired or released on its behalf and no notification
\* reached the tracker, whatever its model's dirty value and whether or not
\* it has been disposed.
C9_InertUntilReady ==
  \A c \in contexts :
    ~ready[c] =>
      /\ OwnedBy(c) = {}
      /\ disposable[c] = Null
      /\ ~delivered[c]
      /\ ~connected[c]

C9_Witness ==
  \E c \in contexts :
    /\ ~ready[c] /\ disposed[c] /\ modelDirty[c]
    /\ OwnedBy(c) = {}

\* C10: handleContext is invoked exactly once for a context, on the first
\* open of a widget bound to it, however many widgets of that context are
\* opened or re-opened.
\* The widgets of context c that opener.open has been called on (each has
\* received an id); they may since have been closed.
WidgetsOf(c) == {w \in 1..Len(widgets) : widgets[w].ctx = c /\ widgets[w].id # NoId}

C10_HandledOnce ==
  \A c \in Contexts :
    /\ handleCalls[c] = IF WidgetsOf(c) # {} THEN 1 ELSE 0
    /\ c \in contexts <=> WidgetsOf(c) # {}

C10_Witness ==
  \E c \in contexts :
    /\ Cardinality(WidgetsOf(c)) >= 2
    /\ event.op \in {"clone", "reveal"}
    /\ handleCalls[c] = 1

\* C11: a context is in the tracked set exactly from its first open until
\* its disposal notification, which removes it; it is never added again.
C11_RemovedOnDisposal ==
  \A c \in Contexts :
    c \in contexts <=> (WidgetsOf(c) # {} /\ ~disposed[c])

\* C12: a state-change notification whose name is not 'dirty', and any
\* state-change notification emitted before the ready callback has run,
\* makes no acquire and no release call and leaves the tracker's token
\* state and observations unchanged.
C12_OnlyDirtyAfterReady ==
  [][\A c \in contexts :
       (event'.op = "stateChanged" /\ event'.ctx = c
          /\ (event'.name # "dirty" \/ ~ready[c]))
         => /\ tokens' = tokens
            /\ disposable' = disposable
            /\ lastObserved' = lastObserved
            /\ delivered' = delivered]_vars

C12_Witness ==
  \E c \in contexts :
    /\ event.op = "stateChanged" /\ event.ctx = c
    /\ event.name = "readOnly" /\ event.val = TRUE
    /\ connected[c] /\ ~disposed[c]
    /\ disposable[c] = Null /\ OwnedBy(c) = {}

\* ------------------------------------------------------- commands
\* Argument values the commands are executed with.
PathArgs == {Undefined, "", "a.txt"}
\* <<path, factory, kernel>>
OpenArgs ==
  {<<Undefined, Undefined, Undefined>>,
   <<"", "", Undefined>>,
   <<"a.txt", "Editor", "python3">>}

\* docManager.contextForWidget(widget)
ContextForWidget(w) ==
  IF w = NoWidget \/ w = ForeignWidget THEN NoContext ELSE widgets[w].ctx

\* isEnabled(), for app.shell.currentWidget = w
IsEnabled(w) == w # NoWidget /\ ContextForWidget(w) # NoContext

\* typeof args['path'] === 'undefined' ? '' : args['path'] as string
PathOf(argPath) == IF argPath = Undefined THEN "" ELSE argPath

\* args[k] as string || void 0
OrVoid(arg) == IF arg = Undefined \/ arg = "" THEN Undefined ELSE arg

\* One entry of an execution's log: a call made on a collaborator (op is the
\* method), or the settlement of the promise it returned (op is the method
\* followed by ".resolved" or ".rejected").
Call(m, c, p, f, k) == <<m, c, p, f, k>>

CallOp(call) == call[1]
CallCtx(call) == call[2]
CallPath(call) == call[3]

CtxCall(m, c) == Call(m, c, Undefined, Undefined, Undefined)

\* One execution of a command: its arguments, the context it captured, the
\* collaborator promise it is waiting for (pc, "done" when none), the state
\* of what execute returned (result) and its log.
Task(id, c, p, f, k, at, res, lg) == <<id, c, p, f, k, at, res, lg>>

Cmd(t) == t[1]
Ctx(t) == t[2]
ArgPath(t) == t[3]
ArgFactory(t) == t[4]
ArgKernel(t) == t[5]
Pc(t) == t[6]
Result(t) == t[7]
Log(t) == t[8]

CtxTask(id, c, at, res, lg) ==
  Task(id, c, Undefined, Undefined, Undefined, at, res, lg)

\* The settlement of the promise the task waits for, as a log entry.
Settled(t, ok) ==
  Call(IF ok THEN Pc(t) \o ".resolved" ELSE Pc(t) \o ".rejected",
       Ctx(t), Undefined, Undefined, Undefined)

\* The promise execute returned is the one that settles: the task is over.
Finish(t, ok) ==
  [t EXCEPT ![6] = "done",
            ![7] = IF ok THEN "resolved" ELSE "rejected",
            ![8] = Append(Log(t), Settled(t, ok))]

\* A `.then(() => next())` on the settled promise: next is called only on
\* fulfilment, and a rejection passes through to the result.
ThenCall(t, ok, next) ==
  IF ok
  THEN [t EXCEPT ![6] = CallOp(next),
                 ![8] = Log(t) \o <<Settled(t, ok), next>>]
  ELSE Finish(t, ok)

\* CommandIDs.save execute
SaveExecute_IgnoreReadOnly(w) ==
  IF IsEnabled(w)
  THEN LET context == ContextForWidget(w)
       IN CtxTask("save", context, "save", "pending",
                  <<CtxCall("save", context)>>)
  ELSE CtxTask("save", NoContext, "done", "undefined", << >>)

SaveExecute(w) ==
  IF IsEnabled(w)
  THEN LET context == ContextForWidget(w)
       IN IF modelReadOnly[context]
          THEN CtxTask("save", context, "showDialog", "pending",
                       <<CtxCall("showDialog", context)>>)
          ELSE CtxTask("save", context, "save", "pending",
                       <<CtxCall("save", context)>>)
  ELSE CtxTask("save", NoContext, "done", "undefined", << >>)

\* context.save().then(() => context.createCheckpoint())
SaveThen(t, ok) == ThenCall(t, ok, CtxCall("createCheckpoint", Ctx(t)))

\* CommandIDs.restoreCheckpoint execute
RestoreCheckpointExecute_IgnoreReadOnly(w) ==
  IF IsEnabled(w)
  THEN LET context == ContextForWidget(w)
       IN CtxTask("restoreCheckpoint", context, "restoreCheckpoint", "pending",
                  <<CtxCall("restoreCheckpoint", context)>>)
  ELSE CtxTask("restoreCheckpoint", NoContext, "done", "undefined", << >>)

RestoreCheckpointExecute(w) ==
  IF IsEnabled(w)
  THEN LET context == ContextForWidget(w)
       IN IF modelReadOnly[context]
          THEN CtxTask("restoreCheckpoint", context, "revert", "pending",
                       <<CtxCall("revert", context)>>)
          ELSE CtxTask("restoreCheckpoint", context, "restoreCheckpoint", "pending",
                       <<CtxCall("restoreCheckpoint", context)>>)
  ELSE CtxTask("restoreCheckpoint", NoContext, "done", "undefined", << >>)

\* context.restoreCheckpoint().then(() => context.revert())
RestoreCheckpointThen(t, ok) == ThenCall(t, ok, CtxCall("revert", Ctx(t)))

\* CommandIDs.deleteFile execute
DeleteFileExecute_NoPathCheck(argPath) ==
  LET path == PathOf(argPath)
  IN Task("deleteFile", NoContext, argPath, Undefined, Undefined,
          "deleteFile", "pending",
          <<Call("deleteFile", NoContext, path, Undefined, Undefined)>>)

DeleteFileExecute(argPath) ==
  LET path == PathOf(argPath)
  IN IF path = ""
     THEN Task("deleteFile", NoContext, argPath, Undefined, Undefined,
               "done", "threw", << >>)
     ELSE Task("deleteFile", NoContext, argPath, Undefined, Undefined,
               "deleteFile", "pending",
               <<Call("deleteFile", NoContext, path, Undefined, Undefined)>>)

\* CommandIDs.open execute
OpenExecute(argPath, argFactory, argKernel) ==
  LET path == PathOf(argPath)
  IN Task("open", NoContext, argPath, argFactory, argKernel,
          "get", "pending",
          <<Call("get", NoContext, path, Undefined, Undefined)>>)

\* contents.get(...).then(() => docManager.openOrReveal(path, factory, kernel));
\* openOrReveal returns at once, so the result is settled with it.
OpenThen_IgnoreFailure(t, ok) ==
  [t EXCEPT ![6] = "done",
            ![7] = "resolved",
            ![8] = Log(t) \o <<Settled(t, ok),
                                Call("openOrReveal", NoContext, PathOf(ArgPath(t)),
                                     OrVoid(ArgFactory(t)), OrVoid(ArgKernel(t)))>>]

OpenThen(t, ok) ==
  IF ok
  THEN [t EXCEPT ![6] = "done",
                 ![7] = "resolved",
                 ![8] = Log(t) \o <<Settled(t, ok),
                                     Call("openOrReveal", NoContext, PathOf(ArgPath(t)),
                                          OrVoid(ArgFactory(t)), OrVoid(ArgKernel(t)))>>]
  ELSE Finish(t, ok)

\* What runs when the promise task t waits for settles.
Then(t, ok) ==
  CASE Cmd(t) = "save" /\ Pc(t) = "save" -> SaveThen(t, ok)
    [] Cmd(t) = "restoreCheckpoint" /\ Pc(t) = "restoreCheckpoint"
         -> RestoreCheckpointThen(t, ok)
    [] Cmd(t) = "open" /\ Pc(t) = "get" -> OpenThen(t, ok)
    [] OTHER -> Finish(t, ok)

trackerVars == <<ready, connected, disposed, modelVars, histVars, disposable,
                 tokens, trackVars>>

Execute(t) ==
  /\ Len(tasks) < MaxCommands
  /\ tasks' = Append(tasks, t)
  /\ event' = Event("execute", Ctx(t), Cmd(t), FALSE)
  /\ UNCHANGED <<widgetVars, trackerVars, modelReadOnly, shellVars>>

ExecSave == Execute(SaveExecute(currentWidget))

ExecRestoreCheckpoint == Execute(RestoreCheckpointExecute(currentWidget))

ExecDeleteFile(argPath) == Execute(DeleteFileExecute(argPath))

ExecOpen(argPath, argFactory, argKernel) ==
  Execute(OpenExecute(argPath, argFactory, argKernel))

\* What docManager.openOrReveal may do: find no widget factory (0), or
\* create a widget for context c and hand it to opener.open (c), or find an
\* open widget and hand it to opener.open again (reveal w, as NumContexts + w).
OpenOrRevealOutcomes ==
  {0} \cup {c \in Contexts : Len(widgets) < MaxWidgets}
      \cup {NumContexts + w : w \in 1..Len(widgets)}

OpenOrReveal(outcome) ==
  IF outcome = 0
  THEN UNCHANGED <<widgetVars, trackVars, disposable, connected, tokens>>
  ELSE IF outcome \in Contexts
       THEN Open(Append(widgets, NewWidget(outcome)), Len(widgets) + 1)
       ELSE Open(widgets, outcome - NumContexts)

\* The promise task i waits for settles (ok: fulfilled) and its
\* continuation runs.
Settle(i, ok, outcome) ==
  /\ Pc(tasks[i]) # "done"
  /\ LET t == Then(tasks[i], ok)
     IN /\ tasks' = [tasks EXCEPT ![i] = t]
        /\ IF CallOp(Log(t)[Len(Log(t))]) = "openOrReveal"
           THEN OpenOrReveal(outcome)
           ELSE /\ outcome = 0
                /\ UNCHANGED <<widgetVars, trackVars, disposable, connected, tokens>>
  /\ event' = Event("settle", Ctx(tasks[i]), Cmd(tasks[i]), ok)
  /\ UNCHANGED <<ready, disposed, modelVars, histVars, modelReadOnly,
                 shellVars>>

\* The shell when a command is executed: no current widget, a current widget
\* of another plugin, or the widget the document manager has just opened for
\* context c; the context models are writable or read-only.
InitCmd ==
  /\ \E c \in Contexts \cup {NoContext}, w \in {NoWidget, ForeignWidget} :
       IF c = NoContext
       THEN /\ widgets = << >>
            /\ privateId = 0
            /\ currentWidget = w
            /\ foreignAttached = (w = ForeignWidget)
            /\ contexts = {}
            /\ handleCalls = [d \in Contexts |-> 0]
       ELSE /\ w = NoWidget
            /\ widgets = <<[ctx |-> c, id |-> 1, attached |-> TRUE,
                            dataType |-> "document-title"]>>
            /\ privateId = 1
            /\ currentWidget = 1
            /\ foreignAttached = FALSE
            /\ contexts = {c}
            /\ handleCalls = [d \in Contexts |-> IF d = c THEN 1 ELSE 0]
  /\ ready = [c \in Contexts |-> FALSE]
  /\ connected = [c \in Contexts |-> FALSE]
  /\ disposed = [c \in Contexts |-> FALSE]
  /\ modelDirty = [c \in Contexts |-> FALSE]
  /\ disposable = [c \in Contexts |-> Null]
  /\ tokens = << >>
  /\ lastObserved = [c \in Contexts |-> FALSE]
  /\ delivered = [c \in Contexts |-> FALSE]
  /\ consecTrue = [c \in Contexts |-> 0]
  /\ disposedBeforeReady = [c \in Contexts |-> FALSE]
  /\ event = Event("init", 0, "", FALSE)
  /\ modelReadOnly \in {[c \in Contexts |-> readOnly] : readOnly \in BOOLEAN}
  /\ tasks = << >>

NextCmd ==
  \/ ExecSave
  \/ ExecRestoreCheckpoint
  \/ \E argPath \in PathArgs : ExecDeleteFile(argPath)
  \/ \E args \in OpenArgs : ExecOpen(args[1], args[2], args[3])
  \/ \E closed \in SUBSET Attached : Close(closed)
  \/ \E closed \in SUBSET Attached : CloseAll(closed)
  \/ \E i \in 1..Len(tasks), ok \in BOOLEAN, outcome \in OpenOrRevealOutcomes :
        Settle(i, ok, outcome)

SpecCmd == InitCmd /\ [][NextCmd]_vars

\* The methods and settlements in a task's log, in order.
Ops(t) == [k \in 1..Len(Log(t)) |-> CallOp(Log(t)[k])]

\* The non-empty prefixes of sequence q.
Prefixes(q) == {SubSeq(q, 1, n) : n \in 1..Len(q)}

TasksOf(id) == {i \in 1..Len(tasks) : Cmd(tasks[i]) = id}

TypeOKCmd ==
  /\ Len(tasks) <= MaxCommands
  /\ Len(widgets) <= MaxWidgets
  /\ \A i \in 1..Len(tasks) :
       Result(tasks[i]) \in {"pending", "resolved", "rejected", "threw", "undefined"}

\* Every call in the log of task t that names a context names context c.
CallsOn(t, c) == \A k \in 1..Len(Log(t)) : CallCtx(Log(t)[k]) = c

\* C13: a save execution without a current widget with a context calls
\* nothing; on a read-only model it shows the dialog and calls neither save
\* nor createCheckpoint; otherwise it calls save, and createCheckpoint only
\* after save has resolved, never after save was rejected.
C13_SaveThenCheckpoint ==
  \A i \in TasksOf("save") :
    LET t == tasks[i]
    IN IF Ctx(t) = NoContext
       THEN Log(t) = << >> /\ Result(t) = "undefined"
       ELSE /\ CallsOn(t, Ctx(t))
            /\ IF modelReadOnly[Ctx(t)]
               THEN Ops(t) \in Prefixes(<<"showDialog", "showDialog.resolved">>)
                               \cup Prefixes(<<"showDialog", "showDialog.rejected">>)
               ELSE /\ Ops(t) \in
                         Prefixes(<<"save", "save.resolved", "createCheckpoint",
                                    "createCheckpoint.resolved">>)
                         \cup Prefixes(<<"save", "save.resolved", "createCheckpoint",
                                         "createCheckpoint.rejected">>)
                         \cup Prefixes(<<"save", "save.rejected">>)
                    /\ Ops(t) = <<"save", "save.rejected">> => Result(t) = "rejected"

C13_Witness ==
  \E i, j \in TasksOf("save") :
    /\ Ops(tasks[i]) = <<"save", "save.rejected">>
    /\ Ops(tasks[j]) = <<"save", "save.resolved", "createCheckpoint">>
    /\ ~modelReadOnly[Ctx(tasks[i])]

\* C14: a restore-checkpoint execution on a read-only model calls revert and
\* never restoreCheckpoint; otherwise it calls restoreCheckpoint first, and
\* revert only after restoreCheckpoint has resolved, never after it was
\* rejected.
C14_RestoreThenRevert ==
  \A i \in TasksOf("restoreCheckpoint") :
    LET t == tasks[i]
    IN Ctx(t) # NoContext =>
         /\ CallsOn(t, Ctx(t))
         /\ IF modelReadOnly[Ctx(t)]
            THEN Ops(t) \in Prefixes(<<"revert", "revert.resolved">>)
                            \cup Prefixes(<<"revert", "revert.rejected">>)
            ELSE /\ Ops(t) \in
                      Prefixes(<<"restoreCheckpoint", "restoreCheckpoint.resolved",
                                 "revert", "revert.resolved">>)
                      \cup Prefixes(<<"restoreCheckpoint", "restoreCheckpoint.resolved",
                                      "revert", "revert.rejected">>)
                      \cup Prefixes(<<"restoreCheckpoint", "restoreCheckpoint.rejected">>)
                 /\ Ops(t) = <<"restoreCheckpoint", "restoreCheckpoint.rejected">>
                      => Result(t) = "rejected"

C14_Witness ==
  \E i \in TasksOf("restoreCheckpoint") :
    /\ Ctx(tasks[i]) # NoContext
    /\ modelReadOnly[Ctx(tasks[i])]
    /\ Ops(tasks[i]) = <<"revert", "revert.resolved">>

\* C15: a delete-file execution whose path argument is missing or empty
\* throws and never calls docManager.deleteFile; with a non-empty path it
\* calls docManager.deleteFile once, with that path.
C15_DeleteNeedsPath ==
  \A i \in TasksOf("deleteFile") :
    LET t == tasks[i]
    IN IF ArgPath(t) = Undefined \/ ArgPath(t) = ""
       THEN Result(t) = "threw" /\ Log(t) = << >>
       ELSE /\ Result(t) # "threw"
            /\ Ops(t) \in Prefixes(<<"deleteFile", "deleteFile.resolved">>)
                          \cup Prefixes(<<"deleteFile", "deleteFile.rejected">>)
            /\ CallPath(Log(t)[1]) = ArgPath(t)

C15_Witness ==
  \E i, j \in TasksOf("deleteFile") :
    /\ ArgPath(tasks[i]) = Undefined /\ Result(tasks[i]) = "threw"
    /\ ArgPath(tasks[j]) = "a.txt" /\ Ops(tasks[j]) = <<"deleteFile">>

\* C16: an open execution calls contents.get(path) first, and
\* docManager.openOrReveal(path, factory, kernel) only after that lookup has
\* resolved; when the lookup is rejected openOrReveal is never called and
\* the result is rejected.
C16_OpenAfterLookup ==
  \A i \in TasksOf("open") :
    LET t == tasks[i]
    IN /\ Ops(t) \in Prefixes(<<"get", "get.resolved", "openOrReveal">>)
                     \cup Prefixes(<<"get", "get.rejected">>)
       /\ CallPath(Log(t)[1]) = PathOf(ArgPath(t))
       /\ Ops(t) = <<"get", "get.rejected">> => Result(t) = "rejected"
       /\ Len(Log(t)) = 3 =>
            /\ Result(t) = "resolved"
            /\ Log(t)[3] = Call("openOrReveal", NoContext, PathOf(ArgPath(t)),
                               OrVoid(ArgFactory(t)), OrVoid(ArgKernel(t)))

C16_Witness ==
  \E i, j \in TasksOf("open") :
    /\ Ops(tasks[i]) = <<"get", "get.rejected">>
    /\ Result(tasks[i]) = "rejected"
    /\ Ops(tasks[j]) = <<"get", "get.resolved", "openOrReveal">>
    /\ ArgPath(tasks[j]) = "a.txt"
    /\ Len(widgets) > 0

====
